---- MODULE Spec2Model ----
(***************************************************************************)
(* Model of package ssm (github.com/akupila/ssm): ParamStore construction  *)
(* through its options, schema resolution over a struct type, and Read,    *)
(* which fetches the resolved names once and assigns every returned        *)
(* parameter into the target through setValue.                             *)
(*                                                                         *)
(* Go strings are sequences of one-character strings, so that HasPrefix,   *)
(* TrimSuffix, concatenation and the strconv / time parsers are computed   *)
(* on the characters.  A reflect.Value of the target is a path of field    *)
(* indices from the target struct; the target's memory is the leaf values  *)
(* by path (val) and the set of pointer fields that are non-nil (alloc).   *)
(***************************************************************************)
EXTENDS Integers, Sequences, FiniteSets, TLC

\* ------------------------------------------------------------------ bounds
\* Longest converter chain a ParamStore is built with.
MaxConverters == 2
\* Most parameters one GetParameters response carries.
MaxResp == 3
\* Longest string handed to WithPrefix in the construction specification.
MaxPrefixLen == 3
\* Characters the strings handed to WithPrefix are made of.
PrefixChars == {"/", "d"}

\* ----------------------------------------------------------------- strings
str_empty == <<>>
str_slash == <<"/">>
str_ssm == <<"s", "s", "m">>
str_config == <<"c", "o", "n", "f", "i", "g">>
str_dev == <<"d", "e", "v">>
str_bar == <<"b", "a", "r">>
str_5s == <<"5", "s">>
str_5 == <<"5">>
str_2020 == <<"2", "0", "2", "0">>
str_layout == <<"2", "0", "0", "6">>
str_list == <<"2", "0", "2", "0", ",", "5">>

\* strings.HasPrefix(s, p)
HasPrefix(s, p) == Len(s) >= Len(p) /\ SubSeq(s, 1, Len(p)) = p

\* strings.HasSuffix(s, p)
HasSuffix(s, p) == Len(s) >= Len(p) /\ SubSeq(s, Len(s) - Len(p) + 1, Len(s)) = p

\* strings.TrimSuffix(s, p): removes one trailing occurrence of p, if any.
TrimSuffix(s, p) == IF HasSuffix(s, p) THEN SubSeq(s, 1, Len(s) - Len(p)) ELSE s

Digits == {"0", "1", "2", "3", "4", "5", "6", "7", "8", "9"}

DigitVal(c) ==
    CASE c = "0" -> 0 [] c = "1" -> 1 [] c = "2" -> 2 [] c = "3" -> 3
      [] c = "4" -> 4 [] c = "5" -> 5 [] c = "6" -> 6 [] c = "7" -> 7
      [] c = "8" -> 8 [] c = "9" -> 9

IsDigits(s) == Len(s) > 0 /\ \A i \in 1..Len(s) : s[i] \in Digits

RECURSIVE DecimalValue(_)
\* The number a non-empty run of decimal digits denotes.
DecimalValue(s) ==
    IF Len(s) = 0 THEN 0
    ELSE 10 * DecimalValue(SubSeq(s, 1, Len(s) - 1)) + DigitVal(s[Len(s)])

\* Every decimal string of at most this many digits is below 2^63, the range
\* strconv.ParseInt(s, 10, 64) accepts.
Int64SafeDigits == 9

\* strconv.ParseInt(s, 10, 64): optional sign, then decimal digits only.
\* err is "" on success, "syntax" or "range" otherwise.
ParseInt(s) ==
    LET signed == Len(s) > 0 /\ s[1] \in {"+", "-"}
        body == IF signed THEN SubSeq(s, 2, Len(s)) ELSE s
        neg == signed /\ s[1] = "-"
    IN  IF ~IsDigits(body) THEN [err |-> "syntax", num |-> 0]
        ELSE IF Len(body) > Int64SafeDigits THEN [err |-> "range", num |-> 0]
        ELSE [err |-> "", num |-> IF neg THEN 0 - DecimalValue(body) ELSE DecimalValue(body)]

\* Two's-complement truncation of x to w bits, as reflect.Value.SetInt stores
\* an int64 into a field of a narrower kind.
Pow2(w) == CASE w = 8 -> 256 [] w = 16 -> 65536
Truncate(x, w) ==
    IF w >= 32 THEN x
    ELSE LET m == Pow2(w)
             r == x % m
         IN  IF r >= m \div 2 THEN r - m ELSE r

\* A time.Duration is kept as whole seconds and the nanoseconds beyond them.
Duration(sec, nsec) == [sec |-> sec, nsec |-> nsec]
Billion == 1000000000
DurationOfNanos(n) == Duration(n \div Billion, n % Billion)

\* Multiplier of a duration unit, as seconds and nanoseconds per unit.
UnitOf(u) ==
    CASE u = <<"n", "s">> -> Duration(0, 1)
      [] u = <<"u", "s">> -> Duration(0, 1000)
      [] u = <<"m", "s">> -> Duration(0, 1000000)
      [] u = <<"s">> -> Duration(1, 0)
      [] u = <<"m">> -> Duration(60, 0)
      [] u = <<"h">> -> Duration(3600, 0)
      [] OTHER -> Duration(0, 0)

\* Length of the leading run of digits of s.
RECURSIVE DigitRun(_)
DigitRun(s) == IF Len(s) > 0 /\ s[1] \in Digits THEN 1 + DigitRun(Tail(s)) ELSE 0

\* time.ParseDuration(s) for a single unsigned "<digits><unit>" group or "0":
\* a missing number, a missing unit or an unknown unit is an error.
ParseDuration(s) ==
    LET n == DigitRun(s)
        num == SubSeq(s, 1, n)
        unit == SubSeq(s, n + 1, Len(s))
        mul == UnitOf(unit)
    IN  IF s = <<"0">> THEN [err |-> "", d |-> Duration(0, 0)]
        ELSE IF n = 0 \/ mul = Duration(0, 0) THEN [err |-> "invalid duration", d |-> Duration(0, 0)]
        ELSE [err |-> "", d |-> Duration(DecimalValue(num) * mul.sec
                                          + (DecimalValue(num) * mul.nsec) \div Billion,
                                        (DecimalValue(num) * mul.nsec) % Billion)]

\* time.Parse(layout, s) for the layout "2006": exactly a four-digit year.
\* A time.Time is kept as its year (the zero Time is year 1).
ParseTime(layout, s) ==
    IF layout = str_layout /\ Len(s) = 4 /\ IsDigits(s)
    THEN [err |-> "", t |-> [year |-> DecimalValue(s)]]
    ELSE [err |-> "parse time", t |-> [year |-> 1]]

\* ------------------------------------------------------------------- types
\* A struct field as reflect.StructField shows it: its struct tag (one key and
\* its value; tagKey is empty when the field has no tag), whether it is
\* exported (PkgPath == ""), whether its type is a pointer, and the pointee /
\* field type: its kind, its element kind for a slice, its fields for a struct.
Field(name, tagKey, tag, exported, ptr, kind, elem, fields) ==
    [name |-> name, tagKey |-> tagKey, tag |-> tag, exported |-> exported,
     ptr |-> ptr, kind |-> kind, elem |-> elem, fields |-> fields]

Leaf(name, tag, kind) == Field(name, str_ssm, tag, TRUE, FALSE, kind, "", <<>>)
Struct(name, tag, ptr, fields) == Field(name, str_ssm, tag, TRUE, ptr, "struct", "", fields)

\* struct{ Root string `ssm:"r"`; External *struct{ A, B string } `ssm:"e"` }
TNested ==
    << Leaf("Root", <<"r">>, "string"),
       Struct("External", <<"e">>, TRUE,
              << Leaf("A", <<"a">>, "string"), Leaf("B", <<"b">>, "string") >>) >>

\* struct{ Foo *string `ssm:"f"` }
TSetPointer == << Field("Foo", str_ssm, <<"f">>, TRUE, TRUE, "string", "", <<>>) >>

\* struct{ A struct{ B struct{ C struct{ X, Y string } } } }, every field tagged
TDeep ==
    << Struct("A", <<"a">>, FALSE,
         << Struct("B", <<"b">>, FALSE,
              << Struct("C", <<"c">>, FALSE,
                   << Leaf("X", <<"x">>, "string"), Leaf("Y", <<"y">>, "string") >>) >>) >>) >>

\* struct{ Int8 int8 `ssm:"i"`; Int16 int16 `ssm:"j"` }
TNumber == << Leaf("Int8", <<"i">>, "int8"), Leaf("Int16", <<"j">>, "int16") >>

\* struct{ Timeout time.Duration `ssm:"t"`; NotDuration string `ssm:"n"` }
TDuration == << Leaf("Timeout", <<"t">>, "duration"), Leaf("NotDuration", <<"n">>, "string") >>

\* struct{ Date time.Time `ssm:"d"` }
TTime == << Leaf("Date", <<"d">>, "time") >>

\* struct{ value string `ssm:"f"` }
TUnexported == << Field("value", str_ssm, <<"f">>, FALSE, FALSE, "string", "", <<>>) >>

\* struct{ Foo struct{ bar string `ssm:"b"` } `ssm:"f"` }
TUnexportedNested ==
    << Struct("Foo", <<"f">>, FALSE,
         << Field("bar", str_ssm, <<"b">>, FALSE, FALSE, "string", "", <<>>) >>) >>

\* struct{ Foo string `ssm:"f"`; Inner struct{ bar string `ssm:"b"` } }
\* (Inner carries no tag)
TUntagged ==
    << Leaf("Foo", <<"f">>, "string"),
       Field("Inner", str_empty, str_empty, TRUE, FALSE, "struct", "",
         << Field("bar", str_ssm, <<"b">>, FALSE, FALSE, "string", "", <<>>) >>) >>

\* struct{ Foo string `config:"f"`; Bar string `other:"b"` }
TOptionTag ==
    << Field("Foo", str_config, <<"f">>, TRUE, FALSE, "string", "", <<>>),
       Field("Bar", <<"o">>, <<"b">>, TRUE, FALSE, "string", "", <<>>) >>

\* struct{ Foo []string `ssm:"f"` }
TStringList == << Field("Foo", str_ssm, <<"f">>, TRUE, FALSE, "slice", "string", <<>>) >>

\* struct{ Ints []int `ssm:"i"`; Dates []time.Time `ssm:"d"` }
TNumberSlice ==
    << Field("Ints", str_ssm, <<"i">>, TRUE, FALSE, "slice", "int", <<>>),
       Field("Dates", str_ssm, <<"d">>, TRUE, FALSE, "slice", "time", <<>>) >>

\* The struct types Read is called with.
Types == {TNested, TSetPointer, TDeep, TNumber, TDuration, TTime,
          TUnexported, TUnexportedNested, TUntagged, TOptionTag,
          TStringList, TNumberSlice}

\* reflect.Kind of a (non-pointer) type: a time.Duration is an int64, a
\* time.Time is a struct.
KindOf(kind) ==
    CASE kind = "duration" -> "int64"
      [] kind = "time" -> "struct"
      [] OTHER -> kind

\* Width in bits of the signed integer kinds.
BitSize(kind) == CASE kind = "int8" -> 8 [] kind = "int16" -> 16 [] OTHER -> 64

IntKinds == {"int", "int8", "int16", "int32", "int64"}

\* ------------------------------------------------------------------- state
VARIABLES
    phase,      \* "new": NewParamStore is applying options; "built"; "failed":
                \* NewParamStore returned an error; "fetch", "loop": inside Read;
                \* "done": Read returned
    store,      \* the ParamStore: prefix, tag, converters, cli
    prefixArg,  \* the string the last WithPrefix option was made with
    defaulted,  \* NewParamStore found cli unset and loaded the default config
    target,     \* the argument of Read
    val,        \* target memory: value of every leaf field, by index path
    alloc,      \* target memory: index paths of the pointer fields that are non-nil
    val0,       \* val when Read was called
    alloc0,     \* alloc when Read was called
    schemaMap,  \* Read's local schema: key path -> field index
    resolved,   \* the key paths schema resolution produced: key path -> field index
    request,    \* the GetParametersInput sent: names and WithDecryption
    fetchCount, \* number of GetParametersRequest(...).Send calls made
    got,        \* the response so far: the first parameter returned for each
                \* resolved name
    nresp,      \* number of response parameters processed so far
    last,       \* the last response parameter processed: absent from the schema?
                \* how many converters were called for it?
    err,        \* the error Read returned ("nil": none; "panic": Read panicked)
    reads       \* two Read calls in flight on the one ParamStore, each with
                \* the locals and the argument of its own goroutine

vars == <<phase, store, prefixArg, defaulted, target, val, alloc, val0, alloc0, schemaMap,
          resolved, request, fetchCount, got, nresp, last, err, reads>>

readVars == <<target, val, alloc, val0, alloc0, schemaMap, resolved, request,
              fetchCount, got, nresp, last, err, reads>>

\* An error value: its kind, the parameter name it is prefixed with, the
\* names of a NotFoundError, and the slice index a "set slice index" error
\* names (-1 in every other error).
Error(kind, key, names) == [kind |-> kind, key |-> key, names |-> names, index |-> -1]
NoErr == Error("nil", <<>>, <<>>)

EmptyMap == [k \in {} |-> <<>>]
NoTarget == [kind |-> "none", ty |-> <<>>]
NoRequest == [names |-> {}, decrypt |-> FALSE]
NoLast == [absent |-> FALSE, calls |-> 0]

\* The goroutines that call Read on the one ParamStore.
Callers == {1, 2}

\* One call of Read: where it is ("idle", "fetch", "loop", "done"), its
\* argument v and the memory behind it when called (pre) and now (val,
\* alloc), its local schema map, whether Send failed, the response parameters
\* ranged over so far, and its result.
Call(ph, tgt, pre, v, a, m, failed, resp, e) ==
    [phase |-> ph, target |-> tgt, pre |-> pre, val |-> v, alloc |-> a,
     schema |-> m, failed |-> failed, resp |-> resp, err |-> e]
NoCall == Call("idle", NoTarget, {}, EmptyMap, {}, EmptyMap, FALSE, <<>>, NoErr)

\* ------------------------------------------------------------ construction
\* s := &ParamStore{tag: "ssm"}
Init ==
    /\ phase = "new"
    /\ store = [prefix |-> str_empty, tag |-> str_ssm, converters |-> <<>>, cli |-> "nil"]
    /\ prefixArg = str_empty
    /\ defaulted = FALSE
    /\ target = NoTarget
    /\ val = EmptyMap
    /\ alloc = {}
    /\ val0 = EmptyMap
    /\ alloc0 = {}
    /\ schemaMap = EmptyMap
    /\ resolved = EmptyMap
    /\ request = NoRequest
    /\ fetchCount = 0
    /\ got = EmptyMap
    /\ nresp = 0
    /\ last = NoLast
    /\ err = NoErr
    /\ reads = [c \in Callers |-> NoCall]

\* Adds the leading slash but trims nothing.
normalizePrefix_noTrim(prefix) ==
    IF ~HasPrefix(prefix, str_slash) THEN str_slash \o prefix ELSE prefix

\* The prefix WithPrefix stores for its argument.
normalizePrefix(prefix) ==
    LET p == IF ~HasPrefix(prefix, str_slash) THEN str_slash \o prefix ELSE prefix
    IN  TrimSuffix(p, str_slash)

\* opt(s) for opt = WithPrefix(prefix)
WithPrefix(prefix) ==
    /\ phase = "new"
    /\ store' = [store EXCEPT !.prefix = normalizePrefix(prefix)]
    /\ prefixArg' = prefix
    /\ UNCHANGED <<phase, defaulted>>
    /\ UNCHANGED readVars

\* opt(s) for opt = WithTag(tag)
WithTag(tag) ==
    /\ phase = "new"
    /\ store' = [store EXCEPT !.tag = tag]
    /\ UNCHANGED <<phase, prefixArg, defaulted>>
    /\ UNCHANGED readVars

\* s.converters = append(s.converters, fn)
AddConverter(conv, layout) ==
    /\ phase = "new"
    /\ Len(store.converters) < MaxConverters
    /\ store' = [store EXCEPT !.converters = Append(@, [conv |-> conv, layout |-> layout])]
    /\ UNCHANGED <<phase, prefixArg, defaulted>>
    /\ UNCHANGED readVars

\* opt(s) for opt = WithParseDuration()
WithParseDuration == AddConverter("duration", str_empty)

\* opt(s) for opt = WithParseTime(layout)
WithParseTime(layout) == AddConverter("time", layout)

\* opt(s) for opt = WithParseNumber()
WithParseNumber == AddConverter("number", str_empty)

\* opt(s) for opt = WithClient(client)
WithClient(client) ==
    /\ phase = "new"
    /\ store' = [store EXCEPT !.cli = client]
    /\ UNCHANGED <<phase, prefixArg, defaulted>>
    /\ UNCHANGED readVars

\* The end of NewParamStore, after the options loop: with cli unset the
\* external config is loaded; on failure an error is returned, on success
\* WithClient(ssm.New(cfg)) builds an Option that is never applied to s.
NewParamStore ==
    /\ phase = "new"
    /\ IF store.cli = "nil"
       THEN \E loaded \in BOOLEAN :
              IF loaded
              THEN /\ phase' = "built"
                   /\ defaulted' = TRUE
                   /\ err' = NoErr
              ELSE /\ phase' = "failed"
                   /\ defaulted' = FALSE
                   /\ err' = Error("load external aws config", <<>>, <<>>)
       ELSE /\ phase' = "built"
            /\ UNCHANGED <<defaulted, err>>
    /\ UNCHANGED <<reads, store, prefixArg, target, val, alloc, val0, alloc0, schemaMap,
                   resolved, request, fetchCount, got, nresp, last>>

RECURSIVE StringsUpTo(_)
\* Every string of at most n characters of PrefixChars.
StringsUpTo(n) ==
    IF n = 0 THEN {<<>>}
    ELSE LET shorter == StringsUpTo(n - 1)
         IN  shorter \cup {Append(s, c) : s \in shorter, c \in PrefixChars}

\* Construction alone, with every short string handed to WithPrefix.
NextNew ==
    \/ \E p \in StringsUpTo(MaxPrefixLen) : WithPrefix(p)
    \/ \E t \in {str_ssm, str_config} : WithTag(t)
    \/ WithParseDuration
    \/ WithParseTime(str_layout)
    \/ WithParseNumber
    \/ WithClient("mock")
    \/ NewParamStore

SpecNew == Init /\ [][NextNew]_vars

\* ------------------------------------------------------------ Go []int
\* A Go slice of ints is a window (len, cap) on a backing array; heap holds
\* the backing arrays made so far.  The nil slice has no array.
NilSlice == [arr |-> 0, len |-> 0, cap |-> 0]

\* Capacity of the array append allocates when a slice of capacity cap is
\* full (runtime.growslice for 8-byte elements below 1024 elements).
growCap(cap) == IF cap = 0 THEN 1 ELSE 2 * cap

\* append(sl, x): writes in place into spare capacity, otherwise copies into a
\* new array.  Yields the new slice and the heap after the call.
goAppend(heap, sl, x) ==
    IF sl.len < sl.cap
    THEN [heap |-> [heap EXCEPT ![sl.arr][sl.len + 1] = x],
          slice |-> [sl EXCEPT !.len = sl.len + 1]]
    ELSE LET newcap == growCap(sl.cap)
             arr == [j \in 1..newcap |->
                       IF j <= sl.len THEN heap[sl.arr][j]
                       ELSE IF j = sl.len + 1 THEN x ELSE 0]
         IN  [heap |-> Append(heap, arr),
              slice |-> [arr |-> Len(heap) + 1, len |-> sl.len + 1, cap |-> newcap]]

\* The elements a slice shows on a heap.
Elems(heap, sl) == IF sl.len = 0 THEN <<>> ELSE SubSeq(heap[sl.arr], 1, sl.len)

\* ------------------------------------------------------------------ schema
\* m[k] = v on a Go map.
MapPut(m, k, v) == [x \in DOMAIN m \cup {k} |-> IF x = k THEN v ELSE m[x]]

\* Keeps the map, without the keys of the nested struct.
MapMerge_drop(m, nested) == m

\* for k, v := range nested { m[k] = v }
MapMerge(m, nested) ==
    [x \in DOMAIN m \cup DOMAIN nested |-> IF x \in DOMAIN nested THEN nested[x] ELSE m[x]]

RECURSIVE schemaFrom(_, _, _, _, _, _, _)
\* The loop of ParamStore.schema from field i on, with the map m built so far.
\* Yields the map (key path -> index slice), the heap and the error.
schemaFrom(s, t, keyPrefix, index, i, m, heap) ==
    IF i >= Len(t) THEN [m |-> m, heap |-> heap, err |-> NoErr]
    ELSE LET f == t[i + 1]
             name == keyPrefix \o str_slash \o f.tag
             app == goAppend(heap, index, i)
         IN  IF f.tagKey # s.tag
             THEN schemaFrom(s, t, keyPrefix, index, i + 1, m, heap)
             ELSE IF ~f.exported
             THEN [m |-> EmptyMap, heap |-> heap, err |-> Error("must be exported", <<>>, <<>>)]
             ELSE IF f.kind = "struct"
             THEN LET nested == schemaFrom(s, f.fields, name, app.slice, 0, EmptyMap, app.heap)
                  IN  IF nested.err # NoErr
                      THEN [m |-> EmptyMap, heap |-> nested.heap, err |-> nested.err]
                      ELSE schemaFrom(s, t, keyPrefix, index, i + 1,
                                      MapMerge(m, nested.m), nested.heap)
             ELSE schemaFrom(s, t, keyPrefix, index, i + 1,
                             MapPut(m, name, app.slice), app.heap)

\* s.schema(t, keyPrefix, index)
schema(s, t, keyPrefix, index, heap) == schemaFrom(s, t, keyPrefix, index, 0, EmptyMap, heap)

\* The schema as Read sees it once s.schema(ty, s.prefix, nil) has returned:
\* every index slice read off the final heap.
readSchema(s, ty) ==
    LET r == schema(s, ty, s.prefix, NilSlice, <<>>)
    IN  [err |-> r.err, m |-> [k \in DOMAIN r.m |-> Elems(r.heap, r.m[k])]]

\* ----------------------------------------------------------- target memory
RECURSIVE FieldPaths(_, _)
\* Index paths of all fields of struct type t, below path.
FieldPaths(t, path) ==
    UNION { {Append(path, i - 1)} \cup
            (IF t[i].kind = "struct" THEN FieldPaths(t[i].fields, Append(path, i - 1)) ELSE {})
            : i \in 1..Len(t) }

RECURSIVE FieldAt(_, _)
\* The field of struct type t a non-empty index path leads to.
FieldAt(t, path) ==
    IF Len(path) = 1 THEN t[path[1] + 1]
    ELSE FieldAt(t[path[1] + 1].fields, Tail(path))

LeafPaths(t) == {p \in FieldPaths(t, <<>>) : FieldAt(t, p).kind # "struct"}
PtrPaths(t) == {p \in FieldPaths(t, <<>>) : FieldAt(t, p).ptr}

\* The zero value of a type.
Zero(kind) ==
    CASE kind \in IntKinds -> 0
      [] kind = "duration" -> Duration(0, 0)
      [] kind = "time" -> [year |-> 1]
      [] OTHER -> <<>>

ZeroStruct(t) == [p \in LeafPaths(t) |-> Zero(FieldAt(t, p).kind)]

\* A reflect.Value reached from the target: where it is and its type.
Handle(path, ptr, kind, elem, fields) ==
    [path |-> path, ptr |-> ptr, kind |-> kind, elem |-> elem, fields |-> fields]

\* reflect.Value.Kind()
HandleKind(h) == IF h.ptr THEN "ptr" ELSE KindOf(h.kind)

RECURSIVE walk(_, _, _, _)
\* The loop "for _, i := range index" of Read from position i on: Field(i)
\* panics unless the value is a struct; a nil pointer field is set to a new
\* zero value and the walk goes on in it, a non-nil pointer field is kept
\* as the pointer.
walk(h, index, i, al) ==
    IF i > Len(index) THEN [panic |-> FALSE, h |-> h, alloc |-> al]
    ELSE IF HandleKind(h) # "struct" \/ index[i] >= Len(h.fields)
    THEN [panic |-> TRUE, h |-> h, alloc |-> al]
    ELSE LET f == h.fields[index[i] + 1]
             p == Append(h.path, index[i])
         IN  IF f.ptr /\ p \notin al
             THEN walk(Handle(p, FALSE, f.kind, f.elem, f.fields), index, i + 1, al \cup {p})
             ELSE walk(Handle(p, f.ptr, f.kind, f.elem, f.fields), index, i + 1, al)

\* -------------------------------------------------------------- converters
\* An ssm.Parameter.
StringParam == "String"
SecureStringParam == "SecureString"
StringListParam == "StringList"
Param(name, type, value) == [name |-> name, type |-> type, value |-> value]

\* The result of a converter or of setValue: whether it handled the value,
\* its error kind ("" for nil), the value it stored, the converters called.
Conv(ok, e, v, calls) == [ok |-> ok, err |-> e, v |-> v, calls |-> calls, index |-> -1]

\* The function WithParseDuration registers.
parseDurationFn(p, h) ==
    IF h.ptr \/ h.kind # "duration" THEN Conv(FALSE, "", <<>>, 1)
    ELSE LET r == ParseDuration(p.value)
         IN  IF r.err # "" THEN Conv(FALSE, "parse duration", <<>>, 1)
             ELSE Conv(TRUE, "", r.d, 1)

\* The function WithParseTime(layout) registers.
parseTimeFn(layout, p, h) ==
    IF h.ptr \/ h.kind # "time" THEN Conv(FALSE, "", <<>>, 1)
    ELSE LET r == ParseTime(layout, p.value)
         IN  IF r.err # "" THEN Conv(FALSE, "parse time", <<>>, 1)
             ELSE Conv(TRUE, "", r.t, 1)

\* The value reflect.Value.SetInt(num) leaves in a field of the given type.
SetInt(kind, num) ==
    IF kind = "duration" THEN DurationOfNanos(num) ELSE Truncate(num, BitSize(kind))

\* The function WithParseNumber registers (the modelled types have no float
\* fields; its float case is not modelled).
parseNumberFn(p, h) ==
    IF HandleKind(h) \in IntKinds
    THEN LET r == ParseInt(p.value)
         IN  IF r.err # "" THEN Conv(FALSE, "parse int", <<>>, 1)
             ELSE Conv(TRUE, "", SetInt(h.kind, r.num), 1)
    ELSE Conv(FALSE, "", <<>>, 1)

\* conv(p, v) for an element of s.converters
applyConverter(c, p, h) ==
    CASE c.conv = "duration" -> parseDurationFn(p, h)
      [] c.conv = "time" -> parseTimeFn(c.layout, p, h)
      [] c.conv = "number" -> parseNumberFn(p, h)

\* Leaves the string whole.
Split_whole(s, sep) == <<s>>

RECURSIVE Split(_, _)
\* strings.Split(s, sep) for a one-character sep
Split(s, sep) ==
    IF \A i \in 1..Len(s) : s[i] # sep THEN <<s>>
    ELSE LET k == CHOOSE i \in 1..Len(s) : s[i] = sep /\ \A j \in 1..(i - 1) : s[j] # sep
         IN  <<SubSeq(s, 1, k - 1)>> \o Split(SubSeq(s, k + 1, Len(s)), sep)

RECURSIVE setValue(_, _, _)
RECURSIVE convertersFrom(_, _, _, _, _)
RECURSIVE sliceFrom(_, _, _, _, _, _)

RECURSIVE convertersFrom_wrap(_, _, _, _, _)
\* Sets a slice from a parameter of any type, a plain string becoming a
\* slice of its parts.
convertersFrom_wrap(s, p, h, i, calls) ==
    IF i > Len(s.converters)
    THEN LET k == HandleKind(h)
         IN  IF k = "string"
             THEN IF p.type \in {StringParam, SecureStringParam}
                  THEN Conv(TRUE, "", p.value, calls)
                  ELSE Conv(FALSE, "cannot assign", <<>>, calls)
             ELSE IF k = "slice"
             THEN sliceFrom(s, Split(p.value, ","), h, 1, <<>>, calls)
             ELSE Conv(FALSE, "unsupported", <<>>, calls)
    ELSE LET r == applyConverter(s.converters[i], p, h)
         IN  IF r.err # "" THEN Conv(FALSE, r.err, <<>>, calls + 1)
             ELSE IF r.ok THEN Conv(TRUE, "", r.v, calls + 1)
             ELSE convertersFrom_wrap(s, p, h, i + 1, calls + 1)

\* The converter loop of setValue from converter i on; calls converters have
\* been called so far.  Falls through to the switch on ty.Kind().
convertersFrom(s, p, h, i, calls) ==
    IF i > Len(s.converters)
    THEN LET k == HandleKind(h)
         IN  IF k = "string"
             THEN IF p.type \in {StringParam, SecureStringParam}
                  THEN Conv(TRUE, "", p.value, calls)
                  ELSE Conv(FALSE, "cannot assign", <<>>, calls)
             ELSE IF k = "slice"
             THEN IF p.type # StringListParam
                  THEN Conv(FALSE, "cannot set", <<>>, calls)
                  ELSE sliceFrom(s, Split(p.value, ","), h, 1, <<>>, calls)
             ELSE Conv(FALSE, "unsupported", <<>>, calls)
    ELSE LET r == applyConverter(s.converters[i], p, h)
         IN  IF r.err # "" THEN Conv(FALSE, r.err, <<>>, calls + 1)
             ELSE IF r.ok THEN Conv(TRUE, "", r.v, calls + 1)
             ELSE convertersFrom(s, p, h, i + 1, calls + 1)

\* The loop "for i, part := range parts" of setValue from part i on, with the
\* elements set so far; ends with v.Set(slice).
sliceFrom(s, parts, h, i, elems, calls) ==
    IF i > Len(parts) THEN Conv(TRUE, "", elems, calls)
    ELSE LET r == setValue(s, Param(<<>>, StringParam, parts[i]),
                           Handle(Append(h.path, i - 1), FALSE, h.elem, "", <<>>))
         IN  IF r.err # ""
             THEN [Conv(FALSE, "set slice index", <<>>, calls + r.calls) EXCEPT !.index = i - 1]
             ELSE sliceFrom(s, parts, h, i + 1, Append(elems, r.v), calls + r.calls)

\* s.setValue(p, v): ok with the value stored in v, or the error.
setValue(s, p, h) == convertersFrom(s, p, h, 1, 0)

\* -------------------------------------------------------------------- Read
\* What Read can be handed: a non-pointer, a nil pointer, a pointer to a
\* non-struct, or a pointer to a struct of one of the types.
Targets ==
    {[kind |-> k, ty |-> <<>>] : k \in {"value", "nilptr", "ptr to string"}}
      \cup {[kind |-> "ptr to struct", ty |-> t] : t \in Types}

\* Read's checks of its argument without the nil check.
targetError_noNil(tgt) ==
    IF tgt.kind = "value" THEN Error("target is not a pointer", <<>>, <<>>)
    ELSE IF tgt.kind # "ptr to struct" THEN Error("target is not a pointer to a struct", <<>>, <<>>)
    ELSE NoErr

\* The error of Read's checks of its argument, in the order it makes them.
targetError(tgt) ==
    IF tgt.kind = "value" THEN Error("target is not a pointer", <<>>, <<>>)
    ELSE IF tgt.kind = "nilptr" THEN Error("target is a nil pointer", <<>>, <<>>)
    ELSE IF tgt.kind # "ptr to struct" THEN Error("target is not a pointer to a struct", <<>>, <<>>)
    ELSE NoErr

\* Read, from its call to the return of s.schema: the argument is checked,
\* then the schema of its type is resolved; either error returns at once.
\* The target arrives zero-valued, with any of its pointer fields already set.
Read_check ==
    /\ phase = "built"
    /\ \E tgt \in Targets :
         /\ target' = tgt
         /\ \E pre \in SUBSET PtrPaths(tgt.ty) :
              /\ val' = ZeroStruct(tgt.ty)
              /\ alloc' = pre
              /\ val0' = ZeroStruct(tgt.ty)
              /\ alloc0' = pre
         /\ IF targetError(tgt) # NoErr
            THEN /\ err' = targetError(tgt)
                 /\ phase' = "done"
                 /\ UNCHANGED <<schemaMap, resolved>>
            ELSE LET r == readSchema(store, tgt.ty)
                 IN  IF r.err # NoErr
                     THEN /\ err' = r.err
                          /\ phase' = "done"
                          /\ UNCHANGED <<schemaMap, resolved>>
                     ELSE /\ schemaMap' = r.m
                          /\ resolved' = r.m
                          /\ phase' = "fetch"
                          /\ UNCHANGED err
    /\ UNCHANGED <<reads, store, prefixArg, defaulted, request, fetchCount, got, nresp, last>>

\* Read, from collecting names to the return of Send: one request for the
\* names of the schema with WithDecryption set.  A nil s.cli panics on the
\* method call; a failed Send returns its error.
Read_fetch ==
    /\ phase = "fetch"
    /\ IF store.cli = "nil"
       THEN /\ err' = Error("panic", <<>>, <<>>)
            /\ phase' = "done"
            /\ UNCHANGED <<request, fetchCount>>
       ELSE /\ request' = [names |-> DOMAIN schemaMap, decrypt |-> TRUE]
            /\ fetchCount' = fetchCount + 1
            /\ \E failed \in BOOLEAN :
                 IF failed
                 THEN /\ err' = Error("read ssm", <<>>, <<>>)
                      /\ phase' = "done"
                 ELSE /\ phase' = "loop"
                      /\ UNCHANGED err
    /\ UNCHANGED <<reads, store, prefixArg, defaulted, target, val, alloc, val0, alloc0,
                   schemaMap, resolved, got, nresp, last>>

str_other == <<"/", "z">>

\* Payloads of the response parameters.
Payloads == {str_5s, str_5, str_2020, str_list}

\* Names the response parameters carry: the requested ones and one more.
ResponseNames == DOMAIN resolved \cup {str_other}

\* schema[name] on the Go map: the zero value (a nil index) for an absent key
lookup(m, name) == IF name \in DOMAIN m THEN m[name] ELSE <<>>

\* delete(schema, name)
delete(m, name) == [k \in DOMAIN m \ {name} |-> m[k]]

\* Parameters a response can carry.
ResponseParams ==
    {Param(n, t, v) : n \in ResponseNames,
                      t \in {StringParam, SecureStringParam, StringListParam},
                      v \in Payloads}

\* The loop body, undoing every assignment of the pass when setValue fails.
Read_param_rollback ==
    /\ phase = "loop"
    /\ nresp < MaxResp
    /\ \E param \in ResponseParams :
       LET name == param.name
           index == lookup(schemaMap, name)
           w == walk(Handle(<<>>, FALSE, "struct", "", target.ty), index, 1, alloc)
           r == setValue(store, param, w.h)
       IN  /\ schemaMap' = delete(schemaMap, name)
           /\ nresp' = nresp + 1
           /\ got' = IF name \in DOMAIN resolved /\ name \notin DOMAIN got
                     THEN MapPut(got, name, [type |-> param.type, value |-> param.value])
                     ELSE got
           /\ alloc' = w.alloc
           /\ IF w.panic
              THEN /\ err' = Error("panic", name, <<>>)
                   /\ phase' = "done"
                   /\ last' = [absent |-> name \notin DOMAIN schemaMap, calls |-> 0]
                   /\ UNCHANGED val
              ELSE /\ last' = [absent |-> name \notin DOMAIN schemaMap, calls |-> r.calls]
                   /\ IF r.err # ""
                      THEN /\ err' = [Error(r.err, name, <<>>) EXCEPT !.index = r.index]
                           /\ phase' = "done"
                           /\ val' = val0
                      ELSE /\ val' = [val EXCEPT ![w.h.path] = r.v]
                           /\ UNCHANGED <<err, phase>>
    /\ UNCHANGED <<reads, store, prefixArg, defaulted, target, val0, alloc0, resolved,
                   request, fetchCount>>


\* One iteration of "for _, param := range resp.Parameters", for the next
\* parameter of the response.
Read_param ==
    /\ phase = "loop"
    /\ nresp < MaxResp
    /\ \E param \in ResponseParams :
       LET name == param.name
           index == lookup(schemaMap, name)
           w == walk(Handle(<<>>, FALSE, "struct", "", target.ty), index, 1, alloc)
           r == setValue(store, param, w.h)
       IN  /\ schemaMap' = delete(schemaMap, name)
           /\ nresp' = nresp + 1
           /\ got' = IF name \in DOMAIN resolved /\ name \notin DOMAIN got
                     THEN MapPut(got, name, [type |-> param.type, value |-> param.value])
                     ELSE got
           /\ alloc' = w.alloc
           /\ IF w.panic
              THEN /\ err' = Error("panic", name, <<>>)
                   /\ phase' = "done"
                   /\ last' = [absent |-> name \notin DOMAIN schemaMap, calls |-> 0]
                   /\ UNCHANGED val
              ELSE /\ last' = [absent |-> name \notin DOMAIN schemaMap, calls |-> r.calls]
                   /\ IF r.err # ""
                      THEN /\ err' = [Error(r.err, name, <<>>) EXCEPT !.index = r.index]
                           /\ phase' = "done"
                           /\ UNCHANGED val
                      ELSE /\ val' = [val EXCEPT ![w.h.path] = r.v]
                           /\ UNCHANGED <<err, phase>>
    /\ UNCHANGED <<reads, store, prefixArg, defaulted, target, val0, alloc0, resolved,
                   request, fetchCount>>

\* Every order in which "for n := range schema" can visit the keys.
Orders(S) ==
    {q \in [1..Cardinality(S) -> S] : \A i, j \in 1..Cardinality(S) : q[i] = q[j] => i = j}

\* Reports one of the keys left only.
notFoundNames_first(m) == {<<k>> : k \in DOMAIN m}

\* The names of the NotFoundError built from what is left in the schema.
notFoundNames(m) == Orders(DOMAIN m)

\* The end of Read, once the response has no more parameters: keys left in
\* the schema are reported in a NotFoundError, otherwise nil is returned.
Read_return ==
    /\ phase = "loop"
    /\ IF Cardinality(DOMAIN schemaMap) > 0
       THEN \E names \in notFoundNames(schemaMap) : err' = Error("not found", <<>>, names)
       ELSE err' = NoErr
    /\ phase' = "done"
    /\ UNCHANGED <<reads, store, prefixArg, defaulted, target, val, alloc, val0, alloc0,
                   schemaMap, resolved, request, fetchCount, got, nresp, last>>

Next ==
    \/ \E p \in {str_dev} : WithPrefix(p)
    \/ \E t \in {str_config} : WithTag(t)
    \/ WithParseDuration
    \/ WithParseTime(str_layout)
    \/ WithParseNumber
    \/ WithClient("mock")
    \/ NewParamStore
    \/ Read_check
    \/ Read_fetch
    \/ Read_param
    \/ Read_return

Spec == Init /\ [][Next]_vars

\* ------------------------------------- two Read calls on one ParamStore
MaxConcResp == 2

\* Read up to the return of s.schema, called with v = tgt whose pointer
\* fields pre are set: the checks of v, then the schema into a local map.
checkStep(s, tgt, pre) ==
    LET c == Call("fetch", tgt, pre, ZeroStruct(tgt.ty), pre, EmptyMap, FALSE, <<>>, NoErr)
    IN  IF targetError(tgt) # NoErr
        THEN [c EXCEPT !.phase = "done", !.err = targetError(tgt)]
        ELSE LET r == readSchema(s, tgt.ty)
             IN  IF r.err # NoErr
                 THEN [c EXCEPT !.phase = "done", !.err = r.err]
                 ELSE [c EXCEPT !.schema = r.m]

\* Read from collecting the names to the return of Send.
fetchStep(s, c, failed) ==
    IF s.cli = "nil" THEN [c EXCEPT !.phase = "done", !.err = Error("panic", <<>>, <<>>)]
    ELSE IF failed
    THEN [c EXCEPT !.phase = "done", !.failed = TRUE, !.err = Error("read ssm", <<>>, <<>>)]
    ELSE [c EXCEPT !.phase = "loop"]

\* One pass of "for _, param := range resp.Parameters" in call c.
paramStep(s, c, param) ==
    LET name == param.name
        index == lookup(c.schema, name)
        w == walk(Handle(<<>>, FALSE, "struct", "", c.target.ty), index, 1, c.alloc)
        r == setValue(s, param, w.h)
        d == [c EXCEPT !.schema = delete(c.schema, name),
                       !.resp = Append(c.resp, param),
                       !.alloc = w.alloc]
    IN  IF w.panic
        THEN [d EXCEPT !.phase = "done", !.err = Error("panic", name, <<>>)]
        ELSE IF r.err # ""
        THEN [d EXCEPT !.phase = "done",
                       !.err = [Error(r.err, name, <<>>) EXCEPT !.index = r.index]]
        ELSE [d EXCEPT !.val = [c.val EXCEPT ![w.h.path] = r.v]]

\* The ways call c can return once the response has no more parameters.
returnSteps(c) ==
    IF Cardinality(DOMAIN c.schema) > 0
    THEN {[c EXCEPT !.phase = "done", !.err = Error("not found", <<>>, names)] :
            names \in notFoundNames(c.schema)}
    ELSE {[c EXCEPT !.phase = "done"]}

\* The arguments of the two calls: pointers to structs of their own.
ConcTargets == {[kind |-> "ptr to struct", ty |-> t] : t \in {TNested, TStringList}}

\* Parameters the response to call c can carry: the requested names, as
\* string or string list, with a payload that tells the two calls apart.
ConcParams(c) ==
    {Param(n, t, IF c = 1 THEN str_5 ELSE str_bar) :
        n \in DOMAIN readSchema(store, reads[c].target.ty).m,
        t \in {StringParam, StringListParam}}

\* Goroutine c calls Read and runs it up to the return of s.schema.
Conc_check ==
    /\ phase = "built"
    /\ \E c \in Callers :
         /\ reads[c].phase = "idle"
         /\ \E tgt \in ConcTargets : \E pre \in SUBSET PtrPaths(tgt.ty) :
              reads' = [reads EXCEPT ![c] = checkStep(store, tgt, pre)]
    /\ UNCHANGED <<phase, store, prefixArg, defaulted, target, val, alloc, val0, alloc0,
                   schemaMap, resolved, request, fetchCount, got, nresp, last, err>>

\* Goroutine c sends its request.
Conc_fetch ==
    /\ phase = "built"
    /\ \E c \in Callers :
         /\ reads[c].phase = "fetch"
         /\ \E failed \in BOOLEAN :
              reads' = [reads EXCEPT ![c] = fetchStep(store, reads[c], failed)]
    /\ UNCHANGED <<phase, store, prefixArg, defaulted, target, val, alloc, val0, alloc0,
                   schemaMap, resolved, request, fetchCount, got, nresp, last, err>>

\* The loop body of call c also deletes the name from the other call's map.
afterParam_shared(c, param) ==
    [d \in Callers |-> IF d = c THEN paramStep(store, reads[c], param)
                       ELSE [reads[d] EXCEPT !.schema = delete(@, param.name)]]

\* The calls after goroutine c ran its loop body for param: the body writes
\* the locals and the target of call c only.
afterParam(c, param) == [reads EXCEPT ![c] = paramStep(store, reads[c], param)]

\* Goroutine c runs its loop body for the next parameter of its response.
Conc_param ==
    /\ phase = "built"
    /\ \E c \in Callers :
         /\ reads[c].phase = "loop"
         /\ Len(reads[c].resp) < MaxConcResp
         /\ \E param \in ConcParams(c) : reads' = afterParam(c, param)
    /\ UNCHANGED <<phase, store, prefixArg, defaulted, target, val, alloc, val0, alloc0,
                   schemaMap, resolved, request, fetchCount, got, nresp, last, err>>

\* Goroutine c leaves the loop and returns.
Conc_return ==
    /\ phase = "built"
    /\ \E c \in Callers :
         /\ reads[c].phase = "loop"
         /\ \E d \in returnSteps(reads[c]) : reads' = [reads EXCEPT ![c] = d]
    /\ UNCHANGED <<phase, store, prefixArg, defaulted, target, val, alloc, val0, alloc0,
                   schemaMap, resolved, request, fetchCount, got, nresp, last, err>>

NextConc ==
    \/ WithClient("mock")
    \/ NewParamStore
    \/ Conc_check
    \/ Conc_fetch
    \/ Conc_param
    \/ Conc_return

SpecConc == Init /\ [][NextConc]_vars

\* ------------------------------------------------------------ vocabulary
UsageErrorKinds ==
    {"target is not a pointer", "target is a nil pointer",
     "target is not a pointer to a struct", "must be exported"}

\* Read got past its checks and schema resolution.
SchemaResolved ==
    \/ phase \in {"fetch", "loop"}
    \/ phase = "done" /\ err.kind \notin UsageErrorKinds

RECURSIVE TagsAlong(_, _)
\* "/" and the tag value of every field on an index path, joined.
TagsAlong(t, path) ==
    IF Len(path) = 0 THEN <<>>
    ELSE str_slash \o t[path[1] + 1].tag \o TagsAlong(t[path[1] + 1].fields, Tail(path))

\* The key path of the field at an index path of the target.
OwnKey(path) == store.prefix \o TagsAlong(target.ty, path)

\* Leaf fields that carry the tag, as does every record field around them.
AnnotatedLeaves(tag, t) ==
    {p \in LeafPaths(t) : \A i \in 1..Len(p) : FieldAt(t, SubSeq(p, 1, i)).tagKey = tag}

\* Leaf fields below a pointer field.
OptionalDescendants(t) ==
    {p \in LeafPaths(t) : \E i \in 1..(Len(p) - 1) : FieldAt(t, SubSeq(p, 1, i)).ptr}

PlainTypes == {StringParam, SecureStringParam}

\* The response so far holds one plain parameter for every resolved name and
\* nothing else.
AllReturnedOnce ==
    /\ DOMAIN got = DOMAIN resolved
    /\ nresp = Cardinality(DOMAIN resolved)
    /\ \A k \in DOMAIN got : got[k].type \in PlainTypes

\* ------------------------------------------------------------------ claims
\* C1: when the keys of all fields of the target, among them two or more
\* fields of an optional nested record, are returned once each as plain
\* strings, in any order and whether or not the optional field was already
\* allocated, Read has assigned every field below the optional field and
\* returns no error.
C1_OptionalNestedAssigned ==
    (/\ phase = "done"
     /\ target.kind = "ptr to struct"
     /\ target.ty = TNested
     /\ Cardinality(DOMAIN resolved) = 3
     /\ AllReturnedOnce)
    => /\ err = NoErr
       /\ \A p \in OptionalDescendants(target.ty) :
            /\ OwnKey(p) \in DOMAIN got
            /\ val[p] = got[OwnKey(p)].value
            /\ \A i \in 1..(Len(p) - 1) :
                 FieldAt(target.ty, SubSeq(p, 1, i)).ptr => SubSeq(p, 1, i) \in alloc

\* C2: schema resolution yields one key path per annotated leaf field and the
\* index of each key path leads to the field the key path was built from; so
\* after a Read that returned nil every annotated string field holds the
\* value returned for its own key path.
C2_SchemaOwnField ==
    (SchemaResolved /\ target.kind = "ptr to struct")
    => /\ Cardinality(DOMAIN resolved) = Cardinality(AnnotatedLeaves(store.tag, target.ty))
       /\ \A k \in DOMAIN resolved : OwnKey(resolved[k]) = k
       /\ (phase = "done" /\ err = NoErr) =>
            \A p \in AnnotatedLeaves(store.tag, target.ty) :
               (FieldAt(target.ty, p).kind = "string" /\ OwnKey(p) \in DOMAIN got)
               => val[p] = got[OwnKey(p)].value

\* C3: a returned parameter whose name is not (or no longer) in the schema is
\* ignored: the step that processes it changes no field of the target, calls
\* no converter and does not end Read with an error.
C3_AbsentIgnored ==
    [][(nresp' = nresp + 1 /\ last'.absent)
       => /\ val' = val
          /\ alloc' = alloc
          /\ last'.calls = 0
          /\ err' = NoErr
          /\ phase' = "loop"]_vars

\* C4: a ParamStore built without WithClient, the default config having
\* loaded, holds a client; Read on a valid target then issues its fetch
\* through it.
C4_DefaultClient ==
    /\ (phase # "new" /\ defaulted) => store.cli # "nil"
    /\ (phase = "done" /\ defaulted /\ err.kind \notin UsageErrorKinds)
         => fetchCount = 1 /\ err.kind # "panic"

\* C5 (witness): one key was satisfied and two others are reported missing.
C5_Witness ==
    /\ phase = "done"
    /\ err.kind = "not found"
    /\ Len(err.names) = 2
    /\ Cardinality(DOMAIN got) = 1

\* C5: when Read ends after processing every returned parameter, it returns
\* a NotFoundError naming exactly the resolved key paths that were not
\* returned, each once, if there are any, and nil only if there are none.
C5_NotFoundExact ==
    (phase = "done" /\ err.kind \in {"nil", "not found"} /\ fetchCount = 1)
    => LET missing == DOMAIN resolved \ DOMAIN got
       IN  /\ err.kind = "not found" <=> missing # {}
           /\ err.kind = "not found" =>
                /\ {err.names[i] : i \in 1..Len(err.names)} = missing
                /\ Len(err.names) = Cardinality(missing)

\* A prefix is normalized: empty, or starting with exactly one slash and not
\* ending with one.
Normalized(p) ==
    \/ p = str_empty
    \/ /\ p[1] = "/"
       /\ Len(p) >= 2 => p[2] # "/"
       /\ p[Len(p)] # "/"

\* C6 (as claimed): whatever string WithPrefix was given, the stored prefix is
\* normalized.
C6_PrefixNormalized == Normalized(store.prefix)

\* C6 (witness): a prefix given with one leading and one trailing slash.
C6_Witness == prefixArg = <<"/", "d", "/">> /\ store.prefix = <<"/", "d">>

\* C6: for a string with at most one slash at its beginning and at most one
\* at its end, the stored prefix is normalized.
C6_SingleSlashNormalized ==
    (~HasPrefix(prefixArg, <<"/", "/">>) /\ ~HasSuffix(prefixArg, <<"/", "/">>))
    => Normalized(store.prefix)

HasConverter(c) == \E i \in 1..Len(store.converters) : store.converters[i].conv = c

\* n fits a signed integer of the given kind.
FitsWidth(n, kind) ==
    CASE kind = "int8" -> n >= -128 /\ n <= 127
      [] kind = "int16" -> n >= -32768 /\ n <= 32767
      [] OTHER -> TRUE

\* C7: with the numeric converter, every parameter Read assigned to a signed
\* integer field without an error denotes an integer that fits the field's
\* width, and the field holds that integer.
C7_IntegerPerWidth ==
    (phase \in {"loop", "done"} /\ HasConverter("number") /\ err.kind # "panic")
    => \A p \in AnnotatedLeaves(store.tag, target.ty) :
         (/\ FieldAt(target.ty, p).kind \in IntKinds
          /\ OwnKey(p) \in DOMAIN got
          /\ err.key # OwnKey(p))
         => /\ ParseInt(got[OwnKey(p)].value).err = ""
            /\ FitsWidth(ParseInt(got[OwnKey(p)].value).num, FieldAt(target.ty, p).kind)
            /\ val[p] = ParseInt(got[OwnKey(p)].value).num

\* C8: with the duration converter anywhere in the chain, the plain string
\* "5s" returned for a duration field sets it to 5 seconds without an error.
C8_DurationAnyChain ==
    (/\ phase \in {"loop", "done"}
     /\ HasConverter("duration")
     /\ target.ty = TDuration
     /\ ~last.absent
     /\ OwnKey(<<0>>) \in DOMAIN got
     /\ got[OwnKey(<<0>>)] = [type |-> StringParam, value |-> str_5s])
    => /\ err.key # OwnKey(<<0>>)
       /\ val[<<0>>] = Duration(5, 0)

\* A field at any depth carries the tag and is unexported.
AnyUnexportedAnnotated(tag, t) ==
    \E p \in FieldPaths(t, <<>>) : FieldAt(t, p).tagKey = tag /\ ~FieldAt(t, p).exported

\* An unexported field carries the tag, as does every record field around it.
ReachedUnexportedAnnotated(tag, t) ==
    \E p \in FieldPaths(t, <<>>) :
       /\ FieldAt(t, p).tagKey = tag
       /\ ~FieldAt(t, p).exported
       /\ \A i \in 1..(Len(p) - 1) : FieldAt(t, SubSeq(p, 1, i)).tagKey = tag

\* Read returned the given error before any fetch and left the target alone.
AbortedWith(kind) ==
    /\ phase = "done"
    /\ err.kind = kind
    /\ fetchCount = 0
    /\ request = NoRequest
    /\ val = val0
    /\ alloc = alloc0

\* C9 (as claimed): a target that is not a pointer, is nil or points to a
\* non-struct, or whose type has an unexported annotated field at any depth,
\* makes Read return that usage error before any fetch, the target unchanged.
C9_UsageErrorsAbort ==
    /\ target.kind = "value" => AbortedWith("target is not a pointer")
    /\ target.kind = "nilptr" => AbortedWith("target is a nil pointer")
    /\ target.kind = "ptr to string" => AbortedWith("target is not a pointer to a struct")
    /\ (target.kind = "ptr to struct" /\ AnyUnexportedAnnotated(store.tag, target.ty))
         => AbortedWith("must be exported")

\* C9 (witness): the unexported field is inside an annotated nested record.
C9_Witness == target.ty = TUnexportedNested /\ AbortedWith("must be exported")

\* C9: as claimed, for an unexported annotated field that schema resolution
\* reaches: one whose enclosing record fields all carry the annotation.
C9_ReachedUsageErrorsAbort ==
    /\ target.kind = "value" => AbortedWith("target is not a pointer")
    /\ target.kind = "nilptr" => AbortedWith("target is a nil pointer")
    /\ target.kind = "ptr to string" => AbortedWith("target is not a pointer to a struct")
    /\ (target.kind = "ptr to struct" /\ ReachedUnexportedAnnotated(store.tag, target.ty))
         => AbortedWith("must be exported")

\* C10: a Read without usage error has issued exactly one fetch, for exactly
\* the resolved key paths with decryption, once it is past the fetch; and when
\* the fetch failed nothing was processed and the target is unchanged.
C10_OneFetch ==
    (target.kind # "none" /\ phase \in {"loop", "done"} /\ err.kind \notin UsageErrorKinds)
    => /\ fetchCount = 1
       /\ request = [names |-> DOMAIN resolved, decrypt |-> TRUE]
       /\ err.kind = "read ssm" =>
            /\ phase = "done"
            /\ nresp = 0
            /\ val = val0
            /\ alloc = alloc0

\* Number of commas of a payload.
CommaCount(s) == Cardinality({i \in 1..Len(s) : s[i] = ","})

\* Position of the n-th comma of s; 0 for n = 0, past the end for the comma
\* after the last.
CommaAt(s, n) ==
    IF n = 0 THEN 0
    ELSE IF n > CommaCount(s) THEN Len(s) + 1
    ELSE CHOOSE i \in 1..Len(s) :
           s[i] = "," /\ Cardinality({j \in 1..(i - 1) : s[j] = ","}) = n - 1

\* The n-th comma-separated element of s, counted from 1.
ElementOf(s, n) == SubSeq(s, CommaAt(s, n - 1) + 1, CommaAt(s, n) - 1)

\* A plain string e converts into the element type: a string always, an int
\* through the numeric converter, a time.Time through the time converter.
ElementConverts(kind, e) ==
    CASE kind = "string" -> TRUE
      [] kind = "int" -> HasConverter("number") /\ ParseInt(e).err = ""
      [] kind = "time" -> HasConverter("time") /\ Len(e) = 4 /\ IsDigits(e)
      [] OTHER -> FALSE

\* What the element then is.
ElementValue(kind, e) ==
    CASE kind = "string" -> e
      [] kind = "int" -> ParseInt(e).num
      [] kind = "time" -> [year |-> DecimalValue(e)]

\* Processing the parameter returned for key k ended Read with an error.
FailedAt(k) == phase = "done" /\ err.key = k /\ ~last.absent

\* C11 (witness): "2020,5" was bound to the []int field.
C11_Witness ==
    /\ target.ty = TNumberSlice
    /\ OwnKey(<<0>>) \in DOMAIN got
    /\ got[OwnKey(<<0>>)].value = str_list
    /\ val[<<0>>] = <<2020, 5>>

\* C11: a slice field bound from a StringList parameter holds as many
\* elements as the payload has comma-separated elements, the i-th being the
\* i-th element converted to the element type; if some element does not
\* convert, Read fails with a slice-index error naming the first such element.
C11_ListToSequence ==
    (phase \in {"loop", "done"} /\ target.kind = "ptr to struct")
    => \A p \in AnnotatedLeaves(store.tag, target.ty) :
         LET f == FieldAt(target.ty, p)
             k == OwnKey(p)
         IN  (f.kind = "slice" /\ ~f.ptr /\ k \in DOMAIN got /\ got[k].type = StringListParam)
             => LET s == got[k].value
                    n == CommaCount(s) + 1
                    bad == {i \in 1..n : ~ElementConverts(f.elem, ElementOf(s, i))}
                IN  IF bad = {}
                    THEN /\ ~FailedAt(k)
                         /\ Len(val[p]) = n
                         /\ \A i \in 1..n : val[p][i] = ElementValue(f.elem, ElementOf(s, i))
                    ELSE /\ FailedAt(k)
                         /\ err.kind = "set slice index"
                         /\ err.index + 1 \in bad
                         /\ \A i \in bad : err.index + 1 <= i
                         /\ val[p] = val0[p]

\* No pointer field lies on the way to the field at path p.
NoPointerOn(t, p) == \A i \in 1..Len(p) : ~FieldAt(t, SubSeq(p, 1, i)).ptr

\* C12 (witness): a plain string was returned for the []string field.
C12_Witness ==
    /\ target.ty = TStringList
    /\ OwnKey(<<0>>) \in DOMAIN got
    /\ got[OwnKey(<<0>>)].type = StringParam
    /\ FailedAt(OwnKey(<<0>>))
    /\ err.kind = "cannot set"

\* The step processes the first parameter returned for key k.
Processes(k) == k \notin DOMAIN got /\ k \in DOMAIN got'

\* The step ends Read with an error for key k and writes no field.
FailsKeeping(k) == phase' = "done" /\ err'.key = k /\ err'.kind # "nil" /\ val' = val

\* C12: the step that processes a plain or secret string returned for a
\* slice field, or a string list returned for a string field, ends Read with
\* an error for that parameter ("cannot set" / "cannot assign" when the field
\* is reached through no pointer) and leaves every field as it was.
C12_KindMismatchFails ==
    [][\A p \in AnnotatedLeaves(store.tag, target.ty) :
         LET f == FieldAt(target.ty, p)
             k == OwnKey(p)
         IN  /\ (Processes(k) /\ f.kind = "slice" /\ got'[k].type \in PlainTypes)
                => /\ FailsKeeping(k)
                   /\ NoPointerOn(target.ty, p) => err'.kind = "cannot set"
             /\ (Processes(k) /\ f.kind = "string" /\ got'[k].type = StringListParam)
                => /\ FailsKeeping(k)
                   /\ NoPointerOn(target.ty, p) => err'.kind = "cannot assign"]_vars

\* The key paths of the annotated leaf fields of the target.
LeafKeys == {OwnKey(p) : p \in AnnotatedLeaves(store.tag, target.ty)}

\* C13 (witness): the keys of a nested struct were requested under "/dev".
C13_Witness ==
    /\ target.ty = TNested
    /\ store.prefix = str_slash \o str_dev
    /\ fetchCount = 1
    /\ <<"/", "d", "e", "v", "/", "e", "/", "a">> \in request.names

\* C13: the schema Read resolves, and the names of the request it sends, are
\* exactly the key paths of the annotated leaf fields, each the prefix
\* followed by "/" and a tag value for every field on the way to the leaf;
\* struct fields and fields without the tag give no key.
C13_KeyPaths ==
    (SchemaResolved /\ target.kind = "ptr to struct")
    => /\ DOMAIN resolved = LeafKeys
       /\ fetchCount = 1 => request.names = LeafKeys
       /\ (target.ty = TNested /\ store.tag = str_ssm /\ store.prefix = str_slash \o str_dev)
          => DOMAIN resolved = { <<"/", "d", "e", "v", "/", "r">>,
                                 <<"/", "d", "e", "v", "/", "e", "/", "a">>,
                                 <<"/", "d", "e", "v", "/", "e", "/", "b">> }
       /\ (target.ty = TUntagged /\ store.tag = str_ssm)
          => DOMAIN resolved = {store.prefix \o <<"/", "f">>}

RECURSIVE loopFrom(_, _, _)
\* The loop over the parameters params, run by call c without interruption.
loopFrom(s, c, params) ==
    IF params = <<>> \/ c.phase # "loop" THEN c
    ELSE loopFrom(s, paramStep(s, c, Head(params)), Tail(params))

\* The results of one Read run alone on ParamStore s: with argument tgt whose
\* pointer fields pre are set, a Send that failed or not, and the response
\* parameters resp.
ReadAlone(s, tgt, pre, failed, resp) ==
    LET c1 == checkStep(s, tgt, pre)
        c2 == fetchStep(s, c1, failed)
        c3 == loopFrom(s, c2, resp)
    IN  IF c1.phase = "done" THEN {c1}
        ELSE IF c2.phase = "done" THEN {c2}
        ELSE IF c3.phase = "done" THEN {c3}
        ELSE returnSteps(c3)

\* C14 (witness): call 1 returned a conversion error for its second parameter
\* while call 2, on a target of the same type, is inside its loop.
C14_Witness ==
    /\ reads[1].phase = "done"
    /\ reads[1].err.kind = "cannot assign"
    /\ Len(reads[1].resp) = 2
    /\ reads[2].phase = "loop"
    /\ reads[2].target = reads[1].target
    /\ Len(reads[2].resp) = 1

\* C14: no step of a Read call changes the ParamStore, and whatever the
\* interleaving, a call that has returned left its target and its error as
\* the same call does when run alone with the same argument and response.
C14_ConcurrentReads ==
    [][/\ (\E c \in Callers : reads'[c] # reads[c]) => store' = store
       /\ \A c \in Callers :
            reads'[c].phase = "done"
            => reads'[c] \in ReadAlone(store', reads'[c].target, reads'[c].pre,
                                       reads'[c].failed, reads'[c].resp)]_vars

\* The errors setValue returns.
ConversionErrorKinds ==
    {"cannot assign", "cannot set", "unsupported", "set slice index",
     "parse duration", "parse int", "parse time"}

\* The step processes a response parameter and returns from Read with an error.
AbortStep == phase = "loop" /\ phase' = "done" /\ nresp' = nresp + 1 /\ err'.kind # "panic"

\* C15 (witness): Read returned the conversion error of the second parameter;
\* the field assigned from the first one holds its value and a third key was
\* never returned.
C15_Witness ==
    /\ phase = "done"
    /\ target.ty = TNested
    /\ err.kind = "cannot assign"
    /\ err.key = OwnKey(<<1, 0>>)
    /\ val[<<0>>] = str_5s
    /\ nresp = 2
    /\ OwnKey(<<1, 1>>) \in DOMAIN schemaMap

\* C15: the step on which setValue fails for a response parameter returns
\* from Read with that error under the parameter's name, whatever keys are
\* still missing, and writes no field value; the parameters before it were
\* processed without error, and once Read has returned nothing changes.
C15_FirstErrorAborts ==
    [][/\ AbortStep
          => /\ err'.kind \in ConversionErrorKinds
             /\ err'.key \in ResponseNames
             /\ DOMAIN schemaMap' = DOMAIN schemaMap \ {err'.key}
             /\ val' = val
             /\ \A k \in DOMAIN got : got'[k] = got[k]
       /\ phase = "loop" => err = NoErr
       /\ phase = "done" => (val' = val /\ err' = err)]_vars

====
